---- MODULE Spec2Model ----
(***************************************************************************)
(* Model of the plan parser of src/app.py (parse_weekly_plan), of the      *)
(* responses it is applied to, and of the session of the application       *)
(* (login_page, main_app and the entry point).                             *)
(*                                                                         *)
(* A text is a sequence of symbols.  A symbol is one character ("#", "*",  *)
(* ":", a digit, "SP" for a blank, "NL" for a line feed) or one phrase: a  *)
(* run of characters, starting and ending with a letter or a full stop,    *)
(* that the regular expressions of the parser can only match as a whole    *)
(* (the literal "Day", the literal phrases of the four subsection headings *)
(* and of the disclaimer heading) or only through ".".                     *)
(* The regular expressions are translated symbol by symbol, with Python's  *)
(* leftmost match, greedy "\s*" and lazy "(.*?)" under re.DOTALL.          *)
(***************************************************************************)
EXTENDS Integers, Sequences, FiniteSets, TLC

VARIABLES
    response,     \* the shape of the model response that is being parsed
    plan_text,    \* the argument of parse_weekly_plan (a text; unused for None)
    pc,           \* "call" before the call, then "return" or "raise"
    parsed_plan,  \* the list parse_weekly_plan returned
    session_state,  \* st.session_state: a function from the keys it has
    screen,         \* the page the last run rendered: "login" or "main"
    plan_view,      \* the plan view of the last run: "hidden", "shown", "IndexError"
    notice,         \* the message the last run left on the screen
    event,          \* the widget event the last run handled, with the reply
                    \* of the generation service to it
    last_login      \* the last submission of the login form

parserVars == <<response, plan_text, pc, parsed_plan>>
appVars == <<session_state, screen, plan_view, notice, event, last_login>>
vars == <<parserVars, appVars>>

----------------------------------------------------------------------------
(* Bounds of the model. *)

\* the largest number of day blocks of a response
MaxDays == 9

\* the largest number of day blocks of a response in which one day lacks
\* subsections
MaxPartialDays == 3

----------------------------------------------------------------------------
(* Characters and strings. *)

\* Python's \s, on the characters of the model
IsSpace(c) == c \in {"SP", "NL"}

\* Python's \d
IsDigit(c) == c \in {"0", "1", "2", "3", "4", "5", "6", "7", "8", "9"}

\* the symbol at position i, or "" past the end of the text
At(s, i) == IF i >= 1 /\ i <= Len(s) THEN s[i] ELSE ""

\* the literal lit occurs in s at position i
StartsWithAt(s, i, lit) ==
    /\ i >= 1
    /\ i + Len(lit) - 1 <= Len(s)
    /\ s[i] = lit[1]
    /\ \A k \in 2..Len(lit) : s[i + k - 1] = lit[k]

\* greedy \s* from position i: the first position at or after i that holds
\* no white space (Len(s) + 1 at the end of the text)
SkipSpaces(s, i) ==
    CHOOSE j \in i..(Len(s) + 1) :
        /\ (j = Len(s) + 1 \/ ~IsSpace(s[j]))
        /\ \A k \in i..(j - 1) : IsSpace(s[k])

\* greedy \d* from position i
SkipDigits(s, i) ==
    CHOOSE j \in i..(Len(s) + 1) :
        /\ (j = Len(s) + 1 \/ ~IsDigit(s[j]))
        /\ \A k \in i..(j - 1) : IsDigit(s[k])

\* the last position of s that holds no white space (0 if there is none)
LastNonSpace(s) ==
    IF \A k \in 1..Len(s) : IsSpace(s[k]) THEN 0
    ELSE CHOOSE j \in 1..Len(s) :
            /\ ~IsSpace(s[j])
            /\ \A k \in (j + 1)..Len(s) : IsSpace(s[k])

\* str.strip()
Strip(s) == SubSeq(s, SkipSpaces(s, 1), LastNonSpace(s))

\* the least element of a non-empty set of positions
MinOf(S) == CHOOSE x \in S : \A y \in S : x <= y

\* the greatest element of a non-empty set of positions
MaxOf(S) == CHOOSE x \in S : \A y \in S : y <= x

----------------------------------------------------------------------------
(* The literals of the parser's regular expressions. *)

\* "### <label> ###"
Heading3(label) == <<"#", "#", "#", "SP", label, "SP", "#", "#", "#">>

\* "### Disclaimer ###"
DisclaimerMarker == Heading3("Disclaimer")

\* the heading literal of each field of a day
SectionMarker(field) ==
    CASE field = "calories"   -> Heading3("Estimated Daily Calorie Target")
      [] field = "diet"       -> Heading3("Detailed Diet Plan")
      [] field = "exercise"   -> Heading3("Detailed Exercise Plan")
      [] field = "motivation" -> Heading3("Motivational Tip")

\* the fields of a day that are read from a subsection
Fields == {"calories", "diet", "exercise", "motivation"}

\* the fallback of the disclaimer
DefaultDisclaimer == <<"Standard disclaimer not found.">>

----------------------------------------------------------------------------
(* re.split(r"##\s*Day\s*\d+\s*##", plan_text) *)

\* a pattern without the \s*: "##Day<digits>##" only
MatchDayAt_NoSpaces(s, i) ==
    IF StartsWithAt(s, i, <<"#", "#", "Day">>) /\ IsDigit(At(s, i + 3))
       /\ StartsWithAt(s, SkipDigits(s, i + 3), <<"#", "#">>)
    THEN SkipDigits(s, i + 3) + 2 ELSE 0

\* a lenient pattern: one hash or more before "Day", the closing hashes
\* optional ("# Day 2", "## Day 2" and "## Day 2 ##" alike)
MatchDayAt_Lenient(s, i) ==
    IF At(s, i) # "#" \/ At(s, i - 1) = "#" THEN 0
    ELSE LET h == CHOOSE j \in i..(Len(s) + 1) :
                      /\ At(s, j) # "#"
                      /\ \A x \in i..(j - 1) : s[x] = "#"
             a == SkipSpaces(s, h)
         IN IF h - i > 2 \/ At(s, a) # "Day" THEN 0
            ELSE LET b == SkipSpaces(s, a + 1) IN
                 IF ~IsDigit(At(s, b)) THEN 0
                 ELSE LET e == SkipDigits(s, b)
                          d == CHOOSE j \in e..(Len(s) + 1) :
                                  /\ At(s, j) \notin {"SP", "#"}
                                  /\ \A x \in e..(j - 1) : s[x] \in {"SP", "#"}
                      IN d

\* the position after a match of ##\s*Day\s*\d+\s*## that starts at i, or 0
MatchDayAt(s, i) ==
    IF ~StartsWithAt(s, i, <<"#", "#">>) THEN 0
    ELSE LET a == SkipSpaces(s, i + 2) IN
         IF At(s, a) # "Day" THEN 0
         ELSE LET b == SkipSpaces(s, a + 1) IN
              IF ~IsDigit(At(s, b)) THEN 0
              ELSE LET d == SkipSpaces(s, SkipDigits(s, b)) IN
                   IF StartsWithAt(s, d, <<"#", "#">>) THEN d + 2 ELSE 0

RECURSIVE SplitFrom(_, _, _)
\* the pieces of s from position pos on, cut at every day marker; starts
\* holds the positions of s where the pattern matches
SplitFrom(s, pos, starts) ==
    LET hits == {i \in starts : i >= pos} IN
    IF hits = {} THEN <<SubSeq(s, pos, Len(s))>>
    ELSE LET i == MinOf(hits) IN
         <<SubSeq(s, pos, i - 1)>> \o SplitFrom(s, MatchDayAt(s, i), hits \ {i})

\* re.split(...): the text before the first marker, then one piece per marker
SplitDays(s) == SplitFrom(s, 1, {i \in 1..Len(s) : MatchDayAt(s, i) # 0})

----------------------------------------------------------------------------
(* re.search(marker + r"\s*(.*?)\s*(?=\n<stop>|$)", text, re.DOTALL) *)

\* a lookahead that, for a subsection, stops at the four subsection
\* headings only and not at any other line of hashes
LookaheadAt_Markers(s, k, stop) ==
    LET e == SkipSpaces(s, k) IN
    \/ e = Len(s) + 1
    \/ \E m \in k..(e - 1) :
          IF stop = <<"#", "#", "#">>
          THEN \E f \in Fields : StartsWithAt(s, m, <<"NL">> \o SectionMarker(f))
          ELSE StartsWithAt(s, m, <<"NL">> \o stop)

\* \s*(?=\n<stop>|$) matches at position k.  "$" matches at the end of the
\* text and before a line feed that ends it; both need white space only from
\* k to the end.
LookaheadAt(s, k, stop) ==
    LET e == SkipSpaces(s, k) IN
    \/ e = Len(s) + 1
    \/ \E m \in k..(e - 1) : StartsWithAt(s, m, <<"NL">> \o stop)

\* the match object of the search: found, and group(1)
SearchSection(s, marker, stop) ==
    LET hits == {i \in 1..Len(s) : StartsWithAt(s, i, marker)} IN
    IF hits = {} THEN [found |-> FALSE, group |-> <<>>]
    ELSE LET j == SkipSpaces(s, MinOf(hits) + Len(marker))
             \* the lazy group ends at the first position where the rest matches
             k == MinOf({x \in j..(Len(s) + 1) : LookaheadAt(s, x, stop)})
         IN [found |-> TRUE, group |-> SubSeq(s, j, k - 1)]

----------------------------------------------------------------------------
(* re.findall(r"\*\*\s*(.*?)\s*\*\*\s*\n(.*?)(?=\n\*\*|\Z)", text, re.DOTALL) *)

Bold == <<"*", "*">>

\* \s*\*\*\s*\n matches at position b
CloseAt(s, b) ==
    LET c == SkipSpaces(s, b) IN
    /\ StartsWithAt(s, c, Bold)
    /\ \E n \in (c + 2)..(SkipSpaces(s, c + 2) - 1) : s[n] = "NL"

\* the whole pattern matches with its opening ** at position i
ItemAt(s, i) ==
    /\ StartsWithAt(s, i, Bold)
    /\ \E b \in SkipSpaces(s, i + 2)..Len(s) : CloseAt(s, b)

\* the text after the last ":" of a title, stripped (the whole title if it
\* has no ":")
Subtitle(name) ==
    LET colons == {x \in 1..Len(name) : name[x] = ":"} IN
    IF colons = {} THEN name ELSE Strip(SubSeq(name, MaxOf(colons) + 1, Len(name)))

\* a match whose name is the subtitle after the colon
ItemMatch_Subtitle(s, i) ==
    LET a == SkipSpaces(s, i + 2)
        b == MinOf({x \in a..Len(s) : CloseAt(s, x)})
        c == SkipSpaces(s, b)
        n == MaxOf({x \in (c + 2)..(SkipSpaces(s, c + 2) - 1) : s[x] = "NL"})
        k == MinOf({x \in (n + 1)..(Len(s) + 1) :
                       x = Len(s) + 1 \/ StartsWithAt(s, x, <<"NL">> \o Bold)})
    IN [name |-> Subtitle(SubSeq(s, a, b - 1)), body |-> SubSeq(s, n + 1, k - 1),
        end |-> k]

\* a match whose empty name is replaced by a placeholder
ItemMatch_Placeholder(s, i) ==
    LET a == SkipSpaces(s, i + 2)
        b == MinOf({x \in a..Len(s) : CloseAt(s, x)})
        c == SkipSpaces(s, b)
        n == MaxOf({x \in (c + 2)..(SkipSpaces(s, c + 2) - 1) : s[x] = "NL"})
        k == MinOf({x \in (n + 1)..(Len(s) + 1) :
                       x = Len(s) + 1 \/ StartsWithAt(s, x, <<"NL">> \o Bold)})
    IN [name |-> IF a > b - 1 THEN <<"Item">> ELSE SubSeq(s, a, b - 1),
        body |-> SubSeq(s, n + 1, k - 1), end |-> k]

\* the match that starts at i: the two groups and the position after it
ItemMatch(s, i) ==
    LET a == SkipSpaces(s, i + 2)
        b == MinOf({x \in a..Len(s) : CloseAt(s, x)})
        c == SkipSpaces(s, b)
        \* the greedy \s* gives back as little as lets \n match
        n == MaxOf({x \in (c + 2)..(SkipSpaces(s, c + 2) - 1) : s[x] = "NL"})
        k == MinOf({x \in (n + 1)..(Len(s) + 1) :
                       x = Len(s) + 1 \/ StartsWithAt(s, x, <<"NL">> \o Bold)})
    IN [name |-> SubSeq(s, a, b - 1), body |-> SubSeq(s, n + 1, k - 1), end |-> k]

RECURSIVE FindItemsFrom(_, _, _)
\* the matches from position pos on, left to right, none overlapping; starts
\* holds the positions of s where the pattern matches
FindItemsFrom(s, pos, starts) ==
    LET hits == {i \in starts : i >= pos} IN
    IF hits = {} THEN <<>>
    ELSE LET m == ItemMatch(s, MinOf(hits)) IN
         <<  <<m.name, m.body>>  >> \o FindItemsFrom(s, m.end, hits)

\* a body that ends with its first line
FirstLine(body) ==
    LET feeds == {x \in 1..Len(body) : body[x] = "NL"} IN
    IF feeds = {} THEN body ELSE SubSeq(body, 1, MinOf(feeds) - 1)

\* a findall whose "." does not match a line feed in the instructions
FindItems_FirstLine(s) ==
    LET all == FindItemsFrom(s, 1, {i \in 1..Len(s) : ItemAt(s, i)}) IN
    [j \in 1..Len(all) |-> <<all[j][1], FirstLine(all[j][2])>>]

\* a findall with a fallback: a text without bold title becomes one item
FindItems_Fallback(s) ==
    LET all == FindItemsFrom(s, 1, {i \in 1..Len(s) : ItemAt(s, i)}) IN
    IF all = <<>> /\ s # <<>> THEN << <<<<"Item">>, s>> >> ELSE all

\* re.findall(...): the list of (name, instructions) tuples
FindItems(s) == FindItemsFrom(s, 1, {i \in 1..Len(s) : ItemAt(s, i)})

----------------------------------------------------------------------------
(* parse_weekly_plan *)

\* a str argument, and the None argument
Str(s) == [none |-> FALSE, text |-> s]
None == [none |-> TRUE, text |-> <<>>]

\* the stop of a subsection's capture: (?=\n###|$)
SectionStop == <<"#", "#", "#">>

\* a stop at a day heading only: "\n## Day"
DisclaimerStop_DayOnly == <<"#", "#", "SP", "Day">>

\* the stop of the disclaimer's capture: (?=\n##|$)
DisclaimerStop == <<"#", "#">>

\* the split without the [1:]
Days_KeepPreamble(text) == SplitDays(text)

\* the split cut to its first 7 days
Days_Truncated(text) ==
    LET days == Tail(SplitDays(text)) IN
    IF Len(days) > 7 THEN SubSeq(days, 1, 7) ELSE days

\* the split filled up to 7 days with empty days
Days_Padded(text) ==
    LET days == Tail(SplitDays(text)) IN
    [i \in 1..(IF Len(days) < 7 THEN 7 ELSE Len(days)) |->
        IF i <= Len(days) THEN days[i] ELSE <<>>]

\* days = re.split(...)[1:]
Days(text) == Tail(SplitDays(text))

\* a split that takes None for the empty text
SplitRaises_Guarded(arg) == FALSE

\* re.split raises TypeError when plan_text is None
SplitRaises(arg) == arg.none

\* v.group(1).strip() if v else ""
FieldText(v) == IF v.found THEN Strip(v.group) ELSE <<>>

\* disclaimer.group(1).strip() if disclaimer else "Standard disclaimer ..."
DisclaimerText(text) ==
    LET disclaimer == SearchSection(text, DisclaimerMarker, DisclaimerStop) IN
    IF disclaimer.found THEN Strip(disclaimer.group) ELSE DefaultDisclaimer

\* a day whose subsections count only when all four are found
DayData_AllOrNothing(day_content) ==
    LET d == [f \in Fields |->
                 SearchSection(day_content, SectionMarker(f), SectionStop)] IN
    IF \A f \in Fields : d[f].found THEN d
    ELSE [f \in Fields |-> [found |-> FALSE, group |-> <<>>]]

\* day_data: the four searches in the text of one day
DayData(day_content) ==
    [f \in Fields |-> SearchSection(day_content, SectionMarker(f), SectionStop)]

\* the body of the loop: the dictionary built for one day
ParseDay(day_content, disclaimer_text) ==
    LET day_data == DayData(day_content)
        day_plan == [f \in Fields |-> FieldText(day_data[f])]
    IN [calories   |-> day_plan["calories"],
        diet       |-> FindItems(day_plan["diet"]),
        exercise   |-> FindItems(day_plan["exercise"]),
        motivation |-> day_plan["motivation"],
        disclaimer |-> disclaimer_text]

\* a disclaimer looked up in the text of the day
DayDisclaimer_PerDay(disclaimer_text, day_content) == DisclaimerText(day_content)

\* day_plan["disclaimer"] = disclaimer_text: the disclaimer of the whole text
DayDisclaimer(disclaimer_text, day_content) == disclaimer_text

\* the call: re.split raises TypeError on None; on a text the list of the
\* days' dictionaries is returned
parse_weekly_plan(arg) ==
    IF SplitRaises(arg) THEN [raised |-> TRUE, plan |-> <<>>]
    ELSE LET days == Days(arg.text)
             disclaimer_text == DisclaimerText(arg.text)
         IN [raised |-> FALSE,
             plan   |-> [i \in 1..Len(days) |->
                           ParseDay(days[i], DayDisclaimer(disclaimer_text, days[i]))]]

----------------------------------------------------------------------------
(* The responses the parser is applied to.  A response follows the layout   *)
(* that generate_wellness_plan asks for: a disclaimer, then per day a day   *)
(* heading and the four subsections.  The model varies what a generation    *)
(* service varies: where the disclaimer stands, the number of days, how the *)
(* items are written, and which subsections one day has.                    *)

\* the decimal digits of a day number
DigitOf == [d \in 0..9 |-> CASE d = 0 -> "0" [] d = 1 -> "1" [] d = 2 -> "2"
                             [] d = 3 -> "3" [] d = 4 -> "4" [] d = 5 -> "5"
                             [] d = 6 -> "6" [] d = 7 -> "7" [] d = 8 -> "8"
                             [] d = 9 -> "9"]
Digits(n) == IF n < 10 THEN <<DigitOf[n]>> ELSE <<DigitOf[n \div 10], DigitOf[n % 10]>>

\* "## Day n ##"
DayMarker(n) == <<"#", "#", "SP", "Day", "SP">> \o Digits(n) \o <<"SP", "#", "#">>

\* how the items of a response are written
Styles == {"builder", "spaced", "small", "colon"}

\* the titles and the instructions of the diet items of a style
DietItems(style) ==
    CASE style = "builder" ->
           << <<<<"Breakfast", ":", "SP", "Oats">>,  <<"Cook oats.">>>>,
              <<<<"Lunch", ":", "SP", "Salad">>,     <<"Mix greens.">>>>,
              <<<<"Snack", ":", "SP", "Nuts">>,      <<"A handful.">>>>,
              <<<<"Dinner", ":", "SP", "Soup">>,     <<"Simmer lentils.">>>> >>
      [] style = "spaced" ->
           << <<<<"Overnight", "SP", "Oats">>,  <<"Soak oats.", "NL", "Add berries.">>>>,
              <<<<"Salad">>,                    <<"Mix greens.">>>>,
              <<<<"Nuts">>,                     <<"A handful.">>>>,
              <<<<"Soup">>,                     <<"Simmer lentils.", "NL", "Serve hot.">>>> >>
      [] style = "small" ->
           << <<<<"Breakfast", ":", "SP", "Oats">>,  <<"Cook oats.">>>>,
              <<<<"Lunch", ":", "SP", "Salad">>,     <<"Mix greens.">>>> >>
      [] style = "colon" -> <<>>

\* the titles and the instructions of the exercise items of a style
ExerciseItems(style) ==
    CASE style = "builder" ->
           << <<<<"Warm-up", ":", "SP", "Stretch">>,   <<"Five minutes.">>>>,
              <<<<"Cardio", ":", "SP", "Walking">>,    <<"Thirty minutes.">>>>,
              <<<<"Strength", ":", "SP", "Push-ups">>, <<"Three sets.">>>>,
              <<<<"Core", ":", "SP", "Plank">>,        <<"One minute.">>>>,
              <<<<"Cool-down", ":", "SP", "Yoga">>,    <<"Ten minutes.">>>> >>
      [] style = "spaced" ->
           << <<<<"Stretch">>,   <<"Five minutes.">>>>,
              <<<<"Walking">>,   <<"Thirty minutes.", "NL", "Swing arms.">>>>,
              <<<<"Push-ups">>,  <<"Three sets.">>>>,
              <<<<"Plank">>,     <<"One minute.">>>>,
              <<<<"Yoga">>,      <<"Ten minutes.">>>> >>
      [] style = "small" ->
           << <<<<"Warm-up", ":", "SP", "Stretch">>,   <<"Five minutes.">>>> >>
      [] style = "colon" -> <<>>

\* what stands between two items: a line feed, or a blank line too
ItemGap(style) == IF style = "spaced" THEN <<"NL", "NL">> ELSE <<"NL">>

RECURSIVE ItemsText(_, _)
\* "**title**\ninstructions" for each item, ItemGap between them
ItemsText(items, gap) ==
    IF items = <<>> THEN <<>>
    ELSE Bold \o items[1][1] \o Bold \o <<"NL">> \o items[1][2]
         \o (IF Len(items) = 1 THEN <<>> ELSE gap \o ItemsText(Tail(items), gap))

\* the text under a subsection heading of day n
SectionBody(field, n, style) ==
    CASE field = "calories"   -> Digits(n) \o <<"SP", "kcal">>
      [] field = "motivation" -> <<"Stay consistent.">>
      [] field = "diet" ->
           IF style = "colon"
           THEN <<"Breakfast", ":", "SP", "eat oats", "NL", "more oats">>
           ELSE ItemsText(DietItems(style), ItemGap(style))
      [] field = "exercise" ->
           IF style = "colon"
           THEN <<"Cardio", ":", "SP", "brisk walk">>
           ELSE ItemsText(ExerciseItems(style), ItemGap(style))

\* a subsection: its heading, its text, a blank line
Section(field, n, style) ==
    SectionMarker(field) \o <<"NL">> \o SectionBody(field, n, style) \o <<"NL", "NL">>

\* the order of the subsections of a day
FieldOrder == <<"calories", "diet", "exercise", "motivation">>

\* how a subsection that is not present is missing: with its text
\* ("section"), or its heading alone, the text left behind ("heading")
Missings == {"section", "heading"}

\* a subsection without its heading: its text, a blank line
Orphan(field, n, style) == SectionBody(field, n, style) \o <<"NL", "NL">>

RECURSIVE SectionsFrom(_, _, _, _, _)
\* the subsections of day n from the k-th on: those in present, in order
SectionsFrom(k, n, style, present, missing) ==
    IF k > Len(FieldOrder) THEN <<>>
    ELSE (IF FieldOrder[k] \in present THEN Section(FieldOrder[k], n, style)
          ELSE IF missing = "heading" THEN Orphan(FieldOrder[k], n, style)
          ELSE <<>>)
         \o SectionsFrom(k + 1, n, style, present, missing)

\* the text of day n after its day heading
Block(n, style, present, missing) ==
    <<"NL">> \o SectionsFrom(1, n, style, present, missing)

\* the words of the disclaimer of a response
DisclaimerWords == <<"Consult a doctor.">>

\* where the disclaimer of a response stands
Layouts == {"head", "tail", "intro", "bare"}

\* the text before the first day heading
Preamble(layout) ==
    CASE layout = "head"  -> DisclaimerMarker \o <<"NL">> \o DisclaimerWords \o <<"NL", "NL">>
      [] layout = "intro" -> <<"Here is your plan.", "NL", "NL">>
      [] OTHER            -> <<>>

\* the text after the last day
Foot(layout) ==
    IF layout = "tail" THEN DisclaimerMarker \o <<"NL">> \o DisclaimerWords \o <<"NL">>
    ELSE <<>>

\* the subsections day n of response r has
Present(r, n) == IF n = r.special THEN r.present ELSE Fields

RECURSIVE DaysText(_, _)
\* the days of response r from the n-th on
DaysText(r, n) ==
    IF n > r.days THEN <<>>
    ELSE DayMarker(n) \o Block(n, r.style, Present(r, n), r.missing)
         \o DaysText(r, n + 1)

\* the text of response r
Render(r) == Preamble(r.layout) \o DaysText(r, 1) \o Foot(r.layout)

\* the subsections the special day may have: all, all but one, none
PresentSets == {Fields, {}} \cup {Fields \ {f} : f \in Fields}

\* the responses of the model; one day (special) may lack subsections
Responses ==
    {r \in [layout : Layouts, days : 0..MaxDays, special : 0..MaxPartialDays,
            style : Styles, present : PresentSets,
            missing : Missings \cup {"none"}] :
        /\ r.special <= r.days
        /\ (r.special # 0 => r.days <= MaxPartialDays)
        /\ (r.special = 0) = (r.present = Fields)
        /\ (r.special = 0) = (r.missing = "none")}

----------------------------------------------------------------------------
(* The calls. *)

\* no response: the argument is None
NoResponse == [layout |-> "none", days |-> 0, special |-> 0,
               style |-> "none", present |-> {}, missing |-> "none"]

\* no event, with no reply
NoEvent == [name |-> "none", section |-> "none", index |-> 0, reply |-> None]

\* no submission of the login form
NoLogin == [username |-> "", password |-> <<>>, made |-> FALSE]

\* the application is not running
AppOff ==
    /\ session_state = <<>>
    /\ screen = "none"
    /\ plan_view = "hidden"
    /\ notice = "none"
    /\ event = NoEvent
    /\ last_login = NoLogin

Init ==
    /\ response \in Responses \cup {NoResponse}
    /\ plan_text = IF response = NoResponse THEN None ELSE Str(Render(response))
    /\ pc = "call"
    /\ parsed_plan = <<>>
    /\ AppOff

\* the call parse_weekly_plan(plan_text), to its return or its exception
Parse ==
    /\ pc = "call"
    /\ LET out == parse_weekly_plan(plan_text) IN
         /\ pc' = IF out.raised THEN "raise" ELSE "return"
         /\ parsed_plan' = out.plan
    /\ UNCHANGED <<response, plan_text>>
    /\ UNCHANGED appVars

Next == Parse

Spec == Init /\ [][Next]_vars

----------------------------------------------------------------------------
(* What a response says, read off the way it was written (not parsed). *)

\* the call has returned a plan for a text
Returned == pc = "return" /\ ~plan_text.none

\* the items as findall returns them: the instructions keep what stands
\* between two items, but for the last line feed
WrittenItems(items, gap) ==
    [j \in 1..Len(items) |->
        <<items[j][1],
          items[j][2] \o (IF j < Len(items) THEN SubSeq(gap, 1, Len(gap) - 1) ELSE <<>>)>>]

\* the value of a field of day n of response r, were its subsection written
WrittenField(r, n, field) ==
    CASE field = "diet"     -> WrittenItems(DietItems(r.style), ItemGap(r.style))
      [] field = "exercise" -> WrittenItems(ExerciseItems(r.style), ItemGap(r.style))
      [] OTHER              -> SectionBody(field, n, r.style)

\* the disclaimer of response r
WrittenDisclaimer(r) ==
    IF r.layout \in {"head", "tail"} THEN DisclaimerWords ELSE DefaultDisclaimer

\* the dictionary of day n of response r
WrittenDay(r, n) ==
    LET val(f) == IF f \in Present(r, n) THEN WrittenField(r, n, f) ELSE <<>> IN
    [calories   |-> val("calories"),
     diet       |-> val("diet"),
     exercise   |-> val("exercise"),
     motivation |-> val("motivation"),
     disclaimer |-> WrittenDisclaimer(r)]

\* the text of day n of response r, from its day heading to the next
DayText(r, n) ==
    Block(n, r.style, Present(r, n), r.missing)
    \o (IF n = r.days THEN Foot(r.layout) ELSE <<>>)

\* day n of response r has a text left behind without its heading
HasOrphan(r, n) == n = r.special /\ r.missing = "heading"

\* entry n of the plan is day n of the response: its fields as written, or,
\* where a text stands without its heading, the parse of the text of day n
IsDay(r, n) ==
    IF HasOrphan(r, n)
    THEN parsed_plan[n] = ParseDay(DayText(r, n), WrittenDisclaimer(r))
    ELSE parsed_plan[n] = WrittenDay(r, n)

\* the plan holds the days of the response, in their order
DaysInOrder ==
    /\ Len(parsed_plan) = response.days
    /\ \A n \in 1..response.days : IsDay(response, n)

\* a day without content
IsEmptyDay(d) ==
    d.calories = <<>> /\ d.diet = <<>> /\ d.exercise = <<>> /\ d.motivation = <<>>

\* the default disclaimer the specification names
SpecDefaultDisclaimer ==
    <<"Please consult a professional before starting any new diet or exercise program.">>

----------------------------------------------------------------------------
(* C1: for every input text parse_weekly_plan returns a plan with exactly  *)
(* 7 day entries.  Stated as claimed; the code refutes it.                  *)
C1_SevenEntries == Returned => Len(parsed_plan) = 7

(* C1, amended: the returned plan has one entry per day heading of the     *)
(* text, as many as the text has days: none for a text without day         *)
(* heading, 9 for a text with 9.                                            *)
C1_OneEntryPerDay == Returned => Len(parsed_plan) = response.days

C1_Witness == Returned /\ response.days = 3 /\ Len(parsed_plan) = 3

(* C2: parse_weekly_plan never raises, for None and for any text.  Stated  *)
(* as claimed; the code refutes it.                                         *)
C2_NeverRaises == pc # "raise"

(* C2, amended: for every text, the empty text too, the call returns a     *)
(* plan; for None it raises.                                                *)
C2_RaisesOnlyOnNone == pc # "call" => ((pc = "raise") = plan_text.none)

C2_Witness == Returned /\ response.special # 0 /\ response.present = {}

(* C3: parsing the empty string yields 7 empty day entries with the        *)
(* default disclaimer.  Stated as claimed; the code refutes it.             *)
C3_EmptyTextSevenDays ==
    (Returned /\ plan_text.text = <<>>) =>
        /\ Len(parsed_plan) = 7
        /\ \A n \in 1..Len(parsed_plan) :
              /\ IsEmptyDay(parsed_plan[n])
              /\ parsed_plan[n].disclaimer = SpecDefaultDisclaimer

(* C3, amended: parsing the empty string yields the empty plan, a list     *)
(* without any day entry.                                                   *)
C3_EmptyTextEmptyPlan == (Returned /\ plan_text.text = <<>>) => parsed_plan = <<>>

C3_Witness == Returned /\ plan_text.text = <<>> /\ parsed_plan = <<>>

(* C4: of a text with 9 day blocks exactly 7 entries are returned, the     *)
(* parses of the first 7 blocks in order.  Stated as claimed; the code     *)
(* refutes it.                                                              *)
C4_NineBlocksSevenEntries ==
    (Returned /\ response.days = 9) =>
        /\ Len(parsed_plan) = 7
        /\ \A n \in 1..7 : IsDay(response, n)

(* C4, amended: of a text with more than 7 day blocks every block is       *)
(* returned: 9 entries for 9 blocks, entry i the parse of the i-th block   *)
(* in order of appearance; none is dropped.                                 *)
C4_AllBlocksKept == (Returned /\ response.days > 7) => DaysInOrder

C4_Witness ==
    /\ Returned /\ response.days = 9 /\ Len(parsed_plan) = 9
    /\ parsed_plan[9].calories = <<"9", "SP", "kcal">>

(* C5: of a text with N < 7 day blocks the plan holds the N parsed days    *)
(* and then 7 - N empty days that carry the disclaimer.  Stated as         *)
(* claimed; the code refutes it.                                            *)
C5_PaddedToSeven ==
    (Returned /\ response.days < 7) =>
        /\ Len(parsed_plan) = 7
        /\ \A n \in 1..response.days : IsDay(response, n)
        /\ \A n \in (response.days + 1)..7 :
              /\ IsEmptyDay(parsed_plan[n])
              /\ parsed_plan[n].disclaimer = WrittenDisclaimer(response)

(* C5, amended: of a text with N < 7 day blocks the plan holds the N       *)
(* parsed days, in order, and nothing after them.                           *)
C5_NoPadding == (Returned /\ response.days < 7) => DaysInOrder

C5_Witness ==
    /\ Returned /\ response.days = 2 /\ Len(parsed_plan) = 2
    /\ parsed_plan[2].calories = <<"2", "SP", "kcal">>

(* C6: the disclaimers of all day entries of one plan are equal: the       *)
(* disclaimer of the whole text, copied to each day.                        *)
C6_DisclaimerUniform ==
    Returned =>
        \A m, n \in 1..Len(parsed_plan) :
            /\ parsed_plan[m].disclaimer = parsed_plan[n].disclaimer
            /\ parsed_plan[n].disclaimer = WrittenDisclaimer(response)

C6_Witness ==
    /\ Returned /\ response.layout = "tail" /\ Len(parsed_plan) >= 2
    /\ parsed_plan[1].disclaimer = DisclaimerWords

(* C7: of a response in the exact grammar of the builder with N (1..7)    *)
(* day blocks, each with 4 bold-titled diet items and 5 bold-titled        *)
(* exercise items, the parser recovers N days, each with its 4 diet items  *)
(* and its 5 exercise items in order of appearance, the names equal to the *)
(* titles and the instructions, trimmed, equal to the text under them.     *)
WellFormed(r) ==
    /\ r.layout = "head" /\ r.style \in {"builder", "spaced"}
    /\ r.days \in 1..7 /\ r.special = 0

SameItems(parsed, written) ==
    /\ Len(parsed) = Len(written)
    /\ \A j \in 1..Len(written) :
          /\ parsed[j][1] = written[j][1]
          /\ Strip(parsed[j][2]) = written[j][2]

C7_WellFormedRecovered ==
    (Returned /\ WellFormed(response)) =>
        /\ Len(parsed_plan) = response.days
        /\ \A n \in 1..response.days :
              /\ Len(parsed_plan[n].diet) = 4
              /\ Len(parsed_plan[n].exercise) = 5
              /\ SameItems(parsed_plan[n].diet, DietItems(response.style))
              /\ SameItems(parsed_plan[n].exercise, ExerciseItems(response.style))

C7_Witness ==
    /\ Returned /\ WellFormed(response)
    /\ response.days = 7 /\ response.style = "spaced"
    /\ parsed_plan[7].exercise[2] =
          <<<<"Walking">>, <<"Thirty minutes.", "NL", "Swing arms.", "NL">>>>

(* C8: the name of an item titled "**Label: Title**" is the subtitle after *)
(* the colon, "Title": "**Breakfast: Oats**" and "Cook oats." yield        *)
(* ("Oats", "Cook oats.").  Stated as claimed; the code refutes it.        *)
ColonTitled(r) == r.style \in {"builder", "small"}

NamesAre(parsed, written, Name(_)) ==
    /\ Len(parsed) = Len(written)
    /\ \A j \in 1..Len(written) : parsed[j][1] = Name(written[j][1])

Whole(title) == title

C8_NameIsSubtitle ==
    (Returned /\ ColonTitled(response)) =>
        \A n \in 1..Len(parsed_plan) :
            /\ ("diet" \in Present(response, n) /\ ~HasOrphan(response, n)) =>
                  NamesAre(parsed_plan[n].diet, DietItems(response.style), Subtitle)
            /\ ("exercise" \in Present(response, n) /\ ~HasOrphan(response, n)) =>
                  NamesAre(parsed_plan[n].exercise, ExerciseItems(response.style), Subtitle)

(* C8, amended: the name of an item titled "**Label: Title**" is the whole *)
(* title, "Label: Title": "**Breakfast: Oats**" and "Cook oats." yield     *)
(* ("Breakfast: Oats", "Cook oats.").                                       *)
C8_NameIsWholeTitle ==
    (Returned /\ ColonTitled(response)) =>
        \A n \in 1..Len(parsed_plan) :
            /\ ("diet" \in Present(response, n) /\ ~HasOrphan(response, n)) =>
                  NamesAre(parsed_plan[n].diet, DietItems(response.style), Whole)
            /\ ("exercise" \in Present(response, n) /\ ~HasOrphan(response, n)) =>
                  NamesAre(parsed_plan[n].exercise, ExerciseItems(response.style), Whole)

C8_Witness ==
    /\ Returned /\ response.style = "small" /\ response.days = 1
    /\ response.special = 0
    /\ parsed_plan[1].diet[1] = <<<<"Breakfast", ":", "SP", "Oats">>, <<"Cook oats.">>>>

(* C9: a diet or exercise text without bold title but with a colon-        *)
(* labelled line yields at least one item with a non-empty name, and the   *)
(* call does not raise.  Stated as claimed; the code refutes it.           *)
ColonLabelled(r, n, f) == r.style = "colon" /\ f \in Present(r, n)

C9_ColonLineYieldsItem ==
    (pc # "call" /\ response.style = "colon") =>
        /\ pc = "return"
        /\ \A n \in 1..Len(parsed_plan) : \A f \in {"diet", "exercise"} :
              ColonLabelled(response, n, f) =>
                  \E j \in 1..Len(parsed_plan[n][f]) : parsed_plan[n][f][j][1] # <<>>

(* C9, amended: a diet or exercise text without bold title yields no item  *)
(* for that section, colon-labelled lines or not: its list is empty; the   *)
(* call does not raise.                                                     *)
C9_ColonLineYieldsNothing ==
    (pc # "call" /\ response.style = "colon") =>
        /\ pc = "return"
        /\ Len(parsed_plan) = response.days
        /\ \A n \in 1..Len(parsed_plan) : \A f \in {"diet", "exercise"} :
              parsed_plan[n][f] = <<>>

C9_Witness ==
    /\ Returned /\ response.style = "colon" /\ response.days = 2
    /\ response.special = 0
    /\ parsed_plan[2].diet = <<>> /\ parsed_plan[2].exercise = <<>>
    /\ parsed_plan[2].calories = <<"2", "SP", "kcal">>

(* C10: in a day block, an absent subsection marker yields the empty value *)
(* for that field only; the other three fields are extracted exactly as    *)
(* they would be were the subsection present, and the day entry is still   *)
(* produced.  Stated as claimed; the code refutes it.                      *)

\* the response with every subsection of every day present
Complete(r) == [r EXCEPT !.special = 0, !.present = Fields, !.missing = "none"]

\* the entry of day n in the plan of the complete response
CompleteDay(r, n) == parse_weekly_plan(Str(Render(Complete(r)))).plan[n]

C10_MissingMarkerLocal ==
    (Returned /\ response.special # 0) =>
        /\ Len(parsed_plan) = response.days
        /\ \A f \in Fields :
              parsed_plan[response.special][f] =
                 IF f \in response.present
                 THEN CompleteDay(response, response.special)[f]
                 ELSE <<>>

(* C10, amended: in a day block, an absent subsection marker yields the    *)
(* empty value for that field, and the day entry is still produced.  The   *)
(* other fields are extracted exactly as they would be were the subsection *)
(* present, but for the field of the subsection that stands directly       *)
(* before the missing marker when the text of the missing subsection is    *)
(* still there: that text is captured as part of it.                       *)

\* the subsection after field f in a day, or "" after the last
FieldAfter(f) ==
    CASE f = "calories" -> "diet"
      [] f = "diet"     -> "exercise"
      [] f = "exercise" -> "motivation"
      [] OTHER          -> ""

\* the capture of field f of the special day runs into a text left behind
RunsIntoOrphan(r, f) ==
    r.missing = "heading" /\ FieldAfter(f) # "" /\ FieldAfter(f) \notin r.present

C10_MissingMarkerLocalButOrphan ==
    (Returned /\ response.special # 0) =>
        LET n    == response.special
            full == CompleteDay(response, n)
        IN /\ Len(parsed_plan) = response.days
           /\ \A f \in Fields \ response.present : parsed_plan[n][f] = <<>>
           /\ \A f \in response.present :
                 ~RunsIntoOrphan(response, f) => parsed_plan[n][f] = full[f]
           /\ ("calories" \in response.present /\ RunsIntoOrphan(response, "calories")) =>
                 parsed_plan[n].calories =
                    full.calories \o <<"NL", "NL">>
                    \o SectionBody("diet", n, response.style)

C10_Witness ==
    /\ Returned /\ response.special = 2 /\ response.days = 3
    /\ response.present = Fields \ {"diet"} /\ response.missing = "section"
    /\ response.style = "builder"
    /\ parsed_plan[2].diet = <<>>
    /\ parsed_plan[2].calories = <<"2", "SP", "kcal">>
    /\ Len(parsed_plan[2].exercise) = 5
    /\ parsed_plan[2].motivation = <<"Stay consistent.">>


----------------------------------------------------------------------------
(* Responses that depart from the layout in one place: a line of hashes    *)
(* inside a text, a heading spelled another way, a subsection or a title   *)
(* left empty.  A generation service is asked for the layout of            *)
(* generate_wellness_plan and is not bound to it.                           *)

\* the largest number of day blocks of such a response
MaxEdgeDays == 3

\* departures inside the subsection e.field of day e.at
SectionQuirks == {"note", "sub", "empty"}

\* departures of the disclaimer
DisclaimerQuirks == {"lower", "colon", "h2note", "h3note", "plain2", "emptydisc"}

\* departures of the heading of day e.at
DayQuirks == {"single", "closed", "open", "opentext", "tight"}

\* departures of the first title of the items of e.field of day e.at
TitleQuirks == {"blank", "notitle"}

EdgeStyles == {"small", "spaced"}

\* a response with one departure; but for it, the response is the one of
\* Responses with the same layout, days and style
EdgeResponses ==
    {e \in [layout : {"head"}, days : 0..MaxEdgeDays, special : {0},
            style : EdgeStyles, present : {Fields}, missing : {"none"},
            quirk : SectionQuirks \cup DisclaimerQuirks \cup DayQuirks \cup TitleQuirks,
            at : 0..MaxEdgeDays, field : Fields] :
        /\ e.at <= e.days
        /\ (e.quirk \in DisclaimerQuirks) = (e.at = 0)
        /\ (e.quirk \in DisclaimerQuirks \cup DayQuirks => e.field = "calories")
        /\ (e.quirk \in TitleQuirks => e.field \in {"diet", "exercise"})}

\* a line that starts with "###" and is none of the four subsection
\* headings: "### Note ###" or "#### Sub"
NoteLine(quirk) ==
    IF quirk = "note" THEN Heading3("Note") ELSE <<"#", "#", "#", "#", "SP", "Sub">>

ExtraWords == <<"Extra advice.">>

\* the items of a field of a style
ItemsOf(field, style) ==
    IF field = "diet" THEN DietItems(style) ELSE ExerciseItems(style)

\* the empty title of a quirk: "** **" or "****"
EmptyTitle(quirk) == IF quirk = "blank" THEN <<"SP">> ELSE <<>>

\* items with the first title replaced
Retitled(items, title) ==
    [j \in 1..Len(items) |-> IF j = 1 THEN <<title, items[j][2]>> ELSE items[j]]

\* the text under the heading of a field of day n
EdgeSectionBody(e, n, field) ==
    IF n # e.at \/ field # e.field THEN SectionBody(field, n, e.style)
    ELSE CASE e.quirk \in {"note", "sub"} ->
                SectionBody(field, n, e.style) \o <<"NL">> \o NoteLine(e.quirk)
                \o <<"NL">> \o ExtraWords
           [] e.quirk = "empty" -> <<>>
           [] e.quirk \in TitleQuirks ->
                ItemsText(Retitled(ItemsOf(field, e.style), EmptyTitle(e.quirk)),
                          ItemGap(e.style))
           [] OTHER -> SectionBody(field, n, e.style)

\* the heading of day n
EdgeDayMarker(e, n) ==
    IF n # e.at THEN DayMarker(n)
    ELSE CASE e.quirk = "single"   -> <<"#", "SP", "Day", "SP">> \o Digits(n)
           [] e.quirk = "closed"   -> <<"#", "SP", "Day", "SP">> \o Digits(n) \o <<"SP", "#", "#">>
           [] e.quirk = "open"     -> <<"#", "#", "SP", "Day", "SP">> \o Digits(n)
           [] e.quirk = "opentext" -> <<"#", "#", "SP", "Day", "SP">> \o Digits(n)
                                      \o <<"NL", "Intro.">>
           [] e.quirk = "tight"    -> <<"#", "#", "Day", "SP">> \o Digits(n) \o <<"#", "#">>
           [] OTHER                -> DayMarker(n)

RECURSIVE EdgeSectionsFrom(_, _, _)
\* the subsections of day n from the k-th on
EdgeSectionsFrom(e, n, k) ==
    IF k > Len(FieldOrder) THEN <<>>
    ELSE SectionMarker(FieldOrder[k]) \o <<"NL">> \o EdgeSectionBody(e, n, FieldOrder[k])
         \o <<"NL", "NL">> \o EdgeSectionsFrom(e, n, k + 1)

RECURSIVE EdgeDaysText(_, _)
\* the days from the n-th on
EdgeDaysText(e, n) ==
    IF n > e.days THEN <<>>
    ELSE EdgeDayMarker(e, n) \o <<"NL">> \o EdgeSectionsFrom(e, n, 1)
         \o EdgeDaysText(e, n + 1)

MoreWords == <<"More advice.">>

\* the text before the first day heading
EdgePreamble(e) ==
    CASE e.quirk = "lower"  -> Heading3("disclaimer") \o <<"NL">> \o DisclaimerWords \o <<"NL", "NL">>
      [] e.quirk = "colon"  -> <<"#", "#", "#", "SP", "Disclaimer", ":", "NL">>
                               \o DisclaimerWords \o <<"NL", "NL">>
      [] e.quirk = "h2note" -> DisclaimerMarker \o <<"NL">> \o DisclaimerWords
                               \o <<"NL", "#", "#", "SP", "Note", "NL">> \o MoreWords
                               \o <<"NL", "NL">>
      [] e.quirk = "h3note" -> DisclaimerMarker \o <<"NL">> \o DisclaimerWords
                               \o <<"NL">> \o Heading3("Note") \o <<"NL">> \o MoreWords
                               \o <<"NL", "NL">>
      [] e.quirk = "plain2" -> DisclaimerMarker \o <<"NL">> \o DisclaimerWords
                               \o <<"NL">> \o MoreWords \o <<"NL", "NL">>
      [] e.quirk = "emptydisc" -> DisclaimerMarker \o <<"NL">>
      [] OTHER              -> Preamble(e.layout)

\* the text of the response
EdgeRender(e) == EdgePreamble(e) \o EdgeDaysText(e, 1)

InitEdge ==
    /\ response \in EdgeResponses
    /\ plan_text = Str(EdgeRender(response))
    /\ pc = "call"
    /\ parsed_plan = <<>>
    /\ AppOff

\* the parser applied to the responses with a departure
SpecEdge == InitEdge /\ [][Next]_vars

----------------------------------------------------------------------------
(* What a response with a departure says, read off the way it was written. *)

\* the value of a field whose subsection holds text t
FieldValue(field, t) == IF field \in {"diet", "exercise"} THEN FindItems(t) ELSE t

\* items whose last instructions go on with extra
ExtendLast(items, extra) ==
    [j \in 1..Len(items) |->
        IF j = Len(items) THEN <<items[j][1], items[j][2] \o extra>> ELSE items[j]]

\* the capture of the field with a line of hashes inside, were the capture
\* to end at the four subsection headings only
UpToNextMarker(e) ==
    LET extra == <<"NL">> \o NoteLine(e.quirk) \o <<"NL">> \o ExtraWords IN
    CASE e.quirk = "empty" -> <<>>
      [] e.field \in {"diet", "exercise"} ->
           ExtendLast(WrittenField(e, e.at, e.field), extra)
      [] OTHER -> SectionBody(e.field, e.at, e.style) \o extra

\* the capture of the field, ended by the next line that starts with "###":
\* the text above a line of hashes; for a subsection left empty, the next
\* heading and its text
UpToNextHashLine(e) ==
    IF e.quirk # "empty" THEN WrittenField(e, e.at, e.field)
    ELSE CASE e.field = "calories" ->
                SectionMarker("diet") \o <<"NL">> \o SectionBody("diet", e.at, e.style)
           [] e.field = "diet" -> WrittenField(e, e.at, "exercise")
           [] OTHER -> <<>>

\* day e.at but for the field e.field is as written
OtherFieldsWritten(e) ==
    \A f \in Fields \ {e.field} : parsed_plan[e.at][f] = WrittenField(e, e.at, f)

(* C11: the text captured for a subsection runs from after its heading to  *)
(* the next of the four subsection headings or the end of the day block; a *)
(* line inside it that starts with "###" and is none of the four headings  *)
(* does not end the capture.  Stated as claimed; the code refutes it.      *)
C11_OnlyMarkersEndCapture ==
    (Returned /\ response.quirk \in SectionQuirks) =>
        /\ Len(parsed_plan) = response.days
        /\ parsed_plan[response.at][response.field] = UpToNextMarker(response)

(* C11, amended: the capture runs from after the heading and the white     *)
(* space behind it to the next line that starts with "###", whether one of *)
(* the four headings or not, or to the end of the day block: a "### Note   *)
(* ###" or "#### Sub" line ends it and what follows is lost, and after a   *)
(* heading without text the next heading is captured with its text.        *)
C11_AnyHashLineEndsCapture ==
    (Returned /\ response.quirk \in SectionQuirks) =>
        /\ Len(parsed_plan) = response.days
        /\ parsed_plan[response.at][response.field] = UpToNextHashLine(response)
        /\ OtherFieldsWritten(response)

C11_Witness ==
    /\ Returned /\ response.quirk = "note" /\ response.field = "calories"
    /\ response.at = 2
    /\ parsed_plan[2].calories = <<"2", "SP", "kcal">>

\* the disclaimer of a response with a departure in its disclaimer, were the
\* heading found in any case and the text read up to the first day heading
UpToFirstDay(e) ==
    CASE e.quirk = "lower"  -> DisclaimerWords
      [] e.quirk = "colon"  -> DefaultDisclaimer
      [] e.quirk = "h2note" -> DisclaimerWords \o <<"NL", "#", "#", "SP", "Note", "NL">>
                               \o MoreWords
      [] e.quirk = "h3note" -> DisclaimerWords \o <<"NL">> \o Heading3("Note")
                               \o <<"NL">> \o MoreWords
      [] e.quirk = "plain2" -> DisclaimerWords \o <<"NL">> \o MoreWords
      [] OTHER              -> <<>>

\* the same disclaimer, the heading found in its exact spelling only and the
\* text read up to the first line that starts with "##"
UpToFirstHashLine(e) ==
    CASE e.quirk \in {"lower", "colon"}   -> DefaultDisclaimer
      [] e.quirk \in {"h2note", "h3note"} -> DisclaimerWords
      [] e.quirk = "plain2"               -> DisclaimerWords \o <<"NL">> \o MoreWords
      [] OTHER                            -> DayMarker(1)

(* C12: the disclaimer is found by a case-insensitive search for its       *)
(* heading and is all the text from after the heading to the first day     *)
(* heading or the end of the text, a line of "##" that is no day heading   *)
(* not cutting it short; without the heading the default is used.  Stated  *)
(* as claimed; the code refutes it.                                         *)
C12_AnyCaseUpToFirstDay ==
    (Returned /\ response.quirk \in DisclaimerQuirks) =>
        /\ Len(parsed_plan) = response.days
        /\ \A n \in 1..Len(parsed_plan) :
              parsed_plan[n].disclaimer = UpToFirstDay(response)

(* C12, amended: the disclaimer is found by a case-sensitive search for    *)
(* the exact heading "### Disclaimer ###" and is the text from after the   *)
(* heading and the white space behind it to the first line that starts     *)
(* with "##", a day heading or not, or to the end of the text: "## Note"   *)
(* and "### Note ###" cut it short, and after a heading without text the   *)
(* first day heading is taken for the disclaimer.  Without that exact      *)
(* heading ("### disclaimer ###", "### Disclaimer:") the disclaimer is     *)
(* "Standard disclaimer not found.".                                        *)
C12_ExactHeadingUpToHashLine ==
    (Returned /\ response.quirk \in DisclaimerQuirks) =>
        /\ Len(parsed_plan) = response.days
        /\ \A n \in 1..Len(parsed_plan) :
              parsed_plan[n].disclaimer = UpToFirstHashLine(response)

C12_Witness ==
    /\ Returned /\ response.quirk = "h2note" /\ response.days = 2
    /\ parsed_plan[2].disclaimer = DisclaimerWords

\* the heading of day e.at is no match of the day pattern
HeadingLost(e) == e.quirk \in {"single", "closed", "opentext"}

\* the text of the lost heading, as it stands in the text before it once
\* that text is stripped
LostHeading(e) ==
    CASE e.quirk = "single"   -> <<"#", "SP", "Day", "SP">> \o Digits(e.at)
      [] e.quirk = "closed"   -> <<"#", "SP", "Day", "SP">> \o Digits(e.at) \o <<"SP", "#", "#">>
      [] OTHER                -> <<"#", "#", "SP", "Day", "SP">> \o Digits(e.at)
                                 \o <<"NL", "Intro.">>

\* the disclaimer of a response whose heading of day e.at departs: before a
\* lost heading of day 1 that does not start with "##" it ends with the
\* heading
DisclaimerBefore(e) ==
    IF e.at = 1 /\ e.quirk \in {"single", "closed"}
    THEN DisclaimerWords \o <<"NL", "NL">> \o LostHeading(e)
    ELSE DisclaimerWords

\* day n as written, with the disclaimer the response gives
DayWith(e, n) == [WrittenDay(e, n) EXCEPT !.disclaimer = DisclaimerBefore(e)]

(* C17: a day heading with a single hash ("# Day 2") or without the        *)
(* closing hashes ("## Day 2") is recognised as a day marker and yields    *)
(* the day blocks of the canonical "## Day N ##".  Stated as claimed; the  *)
(* code refutes it.                                                         *)
C17_VariantHeadingsRecognised ==
    (Returned /\ response.quirk \in DayQuirks) =>
        /\ Len(parsed_plan) = response.days
        /\ \A n \in 1..Len(parsed_plan) : parsed_plan[n] = WrittenDay(response, n)

(* C17, amended: a day marker is two hashes, "Day", digits and two hashes  *)
(* again, white space optional between them ("##Day 2##" is one).  A       *)
(* heading with a single hash before "Day" ("# Day 2", "# Day 2 ##") is    *)
(* none: the plan has one entry less and the text of that day stays in the *)
(* text before it, whose last capture (the motivational tip of the day     *)
(* before, the disclaimer before day 1) ends with the heading.  "## Day 2" *)
(* without closing hashes is none either when text follows on the next     *)
(* line; when a "###" heading follows, its first two hashes are consumed   *)
(* as the closing ones: the day is there and the subsection of that        *)
(* heading, the calorie target, is empty.                                   *)
C17_OnlyClosedDoubleHash ==
    (Returned /\ response.quirk \in DayQuirks) =>
        LET e == response IN
        CASE HeadingLost(e) ->
               /\ Len(parsed_plan) = e.days - 1
               /\ \A n \in 1..Len(parsed_plan) :
                     /\ n < e.at - 1 => parsed_plan[n] = DayWith(e, n)
                     /\ n >= e.at => parsed_plan[n] = DayWith(e, n + 1)
                     /\ n = e.at - 1 =>
                           parsed_plan[n] =
                             [DayWith(e, n) EXCEPT !.motivation =
                                 @ \o <<"NL", "NL">> \o LostHeading(e)]
          [] e.quirk = "open" ->
               /\ Len(parsed_plan) = e.days
               /\ \A n \in 1..Len(parsed_plan) :
                     parsed_plan[n] = IF n = e.at
                                      THEN [DayWith(e, n) EXCEPT !.calories = <<>>]
                                      ELSE DayWith(e, n)
          [] OTHER ->
               /\ Len(parsed_plan) = e.days
               /\ \A n \in 1..Len(parsed_plan) : parsed_plan[n] = DayWith(e, n)

C17_Witness ==
    /\ Returned /\ response.quirk = "single" /\ response.days = 3 /\ response.at = 2
    /\ Len(parsed_plan) = 2
    /\ parsed_plan[2].calories = <<"3", "SP", "kcal">>

(* C18: every item of every diet and exercise sequence of a parsed plan    *)
(* has a non-empty name; an empty or white-space title gives a generic     *)
(* placeholder.  Stated as claimed; the code refutes it.                    *)
C18_NamesNonEmpty ==
    Returned =>
        \A n \in 1..Len(parsed_plan) : \A f \in {"diet", "exercise"} :
            \A j \in 1..Len(parsed_plan[n][f]) : parsed_plan[n][f][j][1] # <<>>

(* C18, amended: the name of an item is the trimmed text between its bold  *)
(* marks, and is the empty string when the title is empty ("****") or      *)
(* white space only ("** **"); no placeholder is substituted, and the      *)
(* instructions of the item are kept.                                       *)
C18_EmptyTitleEmptyName ==
    (Returned /\ response.quirk \in TitleQuirks) =>
        /\ Len(parsed_plan) = response.days
        /\ parsed_plan[response.at][response.field] =
              Retitled(WrittenField(response, response.at, response.field), <<>>)
        /\ OtherFieldsWritten(response)

C18_Witness ==
    /\ Returned /\ response.quirk = "blank" /\ response.field = "diet"
    /\ response.at = 1 /\ response.style = "small"
    /\ parsed_plan[1].diet[1] = << <<>>, <<"Cook oats.">> >>

----------------------------------------------------------------------------
(* The session of the application.  Streamlit runs the script from the     *)
(* entry point once for every widget event; st.session_state outlives the  *)
(* runs.  An action of the model is one event with the run that handles    *)
(* it, and the run that st.rerun() starts where the handler calls it.      *)

\* the largest number of entries of the weight log
MaxLog == 2

\* the largest number of messages of the chat
MaxMessages == 3

\* key in st.session_state
Has(ss, key) == key \in DOMAIN ss

\* st.session_state[key] = value
Put(ss, key, value) ==
    [k \in DOMAIN ss \cup {key} |-> IF k = key THEN value ELSE ss[k]]

\* a deletion that spares the stored plan
Del_KeepPlan(ss, keys) == [k \in DOMAIN ss \ (keys \ {"weekly_plan"}) |-> ss[k]]

\* del st.session_state[key], for every key of keys
Del(ss, keys) == [k \in DOMAIN ss \ keys |-> ss[k]]

\* a lookup that gives the default whatever is stored
Get_Default(ss, key, default) == default

\* st.session_state.get(key, default)
Get(ss, key, default) == IF Has(ss, key) THEN ss[key] ELSE default

\* "if key not in st.session_state: st.session_state[key] = value"
PutIfAbsent(ss, key, value) == IF Has(ss, key) THEN ss ELSE Put(ss, key, value)

\* the truth value Python gives a reply: neither None nor the empty text
Truthy(v) == ~v.none /\ v.text # <<>>

\* passwords are sequences of characters
Demo123 == <<"d", "e", "m", "o", "1", "2", "3">>
Admin123 == <<"a", "d", "m", "i", "n", "1", "2", "3">>
Password123 == <<"p", "a", "s", "s", "w", "o", "r", "d", "1", "2", "3">>
Secret1 == <<"s", "e", "c", "r", "e", "t", "1">>
Abc == <<"a", "b", "c">>

\* the accounts a session starts with
DemoAccounts ==
    [u \in {"demo", "admin", "user"} |->
        CASE u = "demo" -> Demo123 [] u = "admin" -> Admin123 [] OTHER -> Password123]

\* a least length that admits a password of three characters
MinPasswordLen_Short == Len(Abc)

\* the least length of a password of a new account
MinPasswordLen == 6

\* the goal weight of a user who has set none
DefaultGoalWeight == 75

\* another goal weight
OtherGoalWeight == 70

\* the weight the inputs start with
DefaultWeight == 70

\* a chat left without message
Cleared_Empty == <<>>

\* the first message of the chat, and the first after "Clear Chat"
Greeting == <<[role |-> "assistant", content |-> "Hello!"]>>
Cleared == <<[role |-> "assistant", content |-> "Chat cleared!"]>>

\* the entry point: logged_in starts False
EntryPoint(ss) == PutIfAbsent(ss, "logged_in", FALSE)

\* the page the entry point routes to
Route(ss) == IF ss.logged_in THEN "main" ELSE "login"

\* what login_page sets in a run without event
LoginPageRun(ss) == PutIfAbsent(PutIfAbsent(ss, "page", "Login"), "user_db", DemoAccounts)

\* a plan view rendered whenever a plan is stored
PlanShown_Stored(ss) == Has(ss, "weekly_plan")

\* the plan view is rendered
PlanShown(ss) == ss.plan_generated /\ Has(ss, "weekly_plan")

\* the option the day selector shows: the one it showed if it is still an
\* option, else the first; 0 for None, when there is no option
Selection(ss) ==
    LET n == Len(ss.weekly_plan) IN
    IF n = 0 THEN 0
    ELSE IF Has(ss, "day_selector") /\ ss.day_selector \in 1..n THEN ss.day_selector
    ELSE 1

\* day_options.index(selected_day_str), 0 on ValueError; counts from 0
selected_day_index(ss) == IF Selection(ss) = 0 THEN 0 ELSE Selection(ss) - 1

\* weekly_plan[selected_day_index] raises IndexError
LookupRaises(ss) == selected_day_index(ss) >= Len(ss.weekly_plan)

\* the plan view of a run
View(ss) ==
    IF ~PlanShown(ss) THEN "hidden"
    ELSE IF LookupRaises(ss) THEN "IndexError"
    ELSE "shown"

\* what main_app sets in a run without event: the goal weight from its
\* input, plan_generated, the state of the day selector (a widget that is
\* not rendered loses its state), and the first chat message unless the run
\* ended in the plan view
MainRun(ss) ==
    LET a == Put(ss, "goal_weight", Get(ss, "goal_weight", DefaultGoalWeight))
        b == PutIfAbsent(a, "plan_generated", FALSE)
        c == IF PlanShown(b) THEN Put(b, "day_selector", Selection(b))
             ELSE Del(b, {"day_selector"})
    IN IF View(c) = "IndexError" THEN c ELSE PutIfAbsent(c, "messages", Greeting)

\* a run of the script without event
Run(ss) ==
    LET a == EntryPoint(ss) IN
    IF a.logged_in THEN MainRun(a) ELSE LoginPageRun(a)

\* the day the plan view shows
day_plan(ss) == ss.weekly_plan[selected_day_index(ss) + 1]

\* the replies of the generation service to "Generate My 7-Day Plan":
\* no reply (None, after an exception), the empty text, a text without day
\* heading, a plan of two days whose second day has no exercise subsection
EmptyReply == [NoResponse EXCEPT !.layout = "bare", !.style = "small", !.present = Fields]
NoDayReply == [EmptyReply EXCEPT !.layout = "intro"]
TwoDayReply ==
    [EmptyReply EXCEPT !.layout = "head", !.days = 2, !.special = 2,
                       !.present = Fields \ {"exercise"}, !.missing = "section"]
GenerateReplies == {NoResponse, EmptyReply, NoDayReply, TwoDayReply}

\* generate_wellness_plan: the content of the reply, or None
generate_wellness_plan(r) == IF r = NoResponse THEN None ELSE Str(Render(r))

\* parse_weekly_plan of the replies that are parsed
ParsedPlans ==
    [r \in {x \in GenerateReplies : Truthy(generate_wellness_plan(x))} |->
        parse_weekly_plan(generate_wellness_plan(r)).plan]

\* the replies of generate_api_call to the prompts of the plan view: None
\* after an exception, a text without bold title, a text with one
PlainReply == Str(<<"Try yoga instead.">>)
BoldReply == Str(Bold \o <<"Yoga">> \o Bold \o <<"NL", "Ten minutes.">>)
ApiReplies == {None, PlainReply, BoldReply}

\* the names and passwords typed into the forms
FormNames == {"", "demo", "new"}
FormPasswords == {<<>>, Abc, Demo123, Secret1}

\* the end of an action: the rest of the run after the handler left ss, or
\* the run that st.rerun() starts, and what is then on the screen
Finish(ss, ev, note) ==
    LET after == Run(ss) IN
    /\ session_state' = after
    /\ screen' = Route(after)
    /\ plan_view' = (IF Route(after) = "main" THEN View(after) ELSE "hidden")
    /\ event' = ev
    /\ notice' = note

\* an event of the given name
Ev(name) == [NoEvent EXCEPT !.name = name]

(* login_page *)

\* the button "Login" above the forms
LoginTab ==
    /\ screen = "login"
    /\ Finish(Put(session_state, "page", "Login"), Ev("Login tab"), "none")
    /\ UNCHANGED <<parserVars, last_login>>

\* the button "Sign Up" above the forms
SignUpTab ==
    /\ screen = "login"
    /\ Finish(Put(session_state, "page", "Sign Up"), Ev("Sign Up tab"), "none")
    /\ UNCHANGED <<parserVars, last_login>>

\* a test of the username alone
CredentialsOk_NameOnly(user_db, username, password) == username \in DOMAIN user_db

\* the test of the login form
CredentialsOk(user_db, username, password) ==
    username \in DOMAIN user_db /\ user_db[username] = password

\* a submission of the login form
Login(username, password, button) ==
    /\ screen = "login"
    /\ session_state.page = "Login"
    /\ LET ss == session_state
           ok == CredentialsOk(ss.user_db, username, password)
           in == PutIfAbsent(
                   PutIfAbsent(Put(Put(ss, "logged_in", TRUE), "username", username),
                               "goal_weight", DefaultGoalWeight),
                   "weight_log", <<>>)
       IN Finish(IF ok THEN in ELSE ss, Ev(button),
                 IF ok THEN "none" ELSE "Invalid credentials.")
    /\ last_login' = [username |-> username, password |-> password, made |-> TRUE]
    /\ UNCHANGED parserVars

\* the button "Login" of the login form
SubmitLogin == \E username \in FormNames, password \in FormPasswords :
                  Login(username, password, "Login")

\* the button "Demo" of the login form
DemoLogin == Login("demo", Demo123, "Demo")

\* the button "Create Account" of the sign-up form
SubmitSignUp ==
    /\ screen = "login"
    /\ session_state.page = "Sign Up"
    /\ \E new_username \in FormNames, new_password \in FormPasswords,
          confirm_password \in FormPasswords :
          LET ss == session_state
              error ==
                CASE new_username = "" \/ new_password = <<>> -> "Please fill out all fields."
                  [] Len(new_password) < MinPasswordLen -> "Password must be at least 6 characters long."
                  [] new_password # confirm_password -> "Passwords do not match!"
                  [] new_username \in DOMAIN ss.user_db -> "Username already exists!"
                  [] OTHER -> "none"
              created == Put(Put(ss, "user_db", Put(ss.user_db, new_username, new_password)),
                             "page", "Login")
          IN Finish(IF error = "none" THEN created ELSE ss,
                    [name |-> "Create Account", section |-> "none", index |-> 0,
                     reply |-> None, new_username |-> new_username,
                     new_password |-> new_password,
                     confirm_password |-> confirm_password],
                    error)
    /\ UNCHANGED <<parserVars, last_login>>

(* main_app *)

\* the button "Logout": every key but user_db is deleted, then st.rerun()
Logout ==
    /\ screen = "main"
    /\ Finish(Del(session_state, DOMAIN session_state \ {"user_db"}), Ev("Logout"), "none")
    /\ UNCHANGED <<parserVars, last_login>>

\* the input "Goal Weight"
SetGoal ==
    /\ screen = "main"
    /\ \E goal \in {DefaultGoalWeight, OtherGoalWeight} :
          Finish(Put(session_state, "goal_weight", goal), Ev("Goal Weight"), "none")
    /\ UNCHANGED <<parserVars, last_login>>

\* the button "Log Weight"
LogWeight ==
    /\ screen = "main"
    /\ Len(Get(session_state, "weight_log", <<>>)) < MaxLog
    /\ LET ss == session_state
           current_weight == DefaultWeight
           week_num == Len(Get(ss, "weight_log", <<>>)) + 1
           a == PutIfAbsent(ss, "weight_log", <<>>)
       IN Finish(Put(a, "weight_log",
                     Append(a.weight_log, [week |-> week_num, weight |-> current_weight])),
                 Ev("Log Weight"), "Logged.")
    /\ UNCHANGED <<parserVars, last_login>>

\* a generate that leaves the shopping list as it was
Generate_KeepList ==
    /\ screen = "main"
    /\ \E r \in GenerateReplies :
          LET ss == session_state
              full_plan == generate_wellness_plan(r)
              ready == Put(Put(ss, "weekly_plan", ParsedPlans[r]), "plan_generated", TRUE)
          IN /\ Finish(IF Truthy(full_plan) THEN ready ELSE Put(ss, "plan_generated", FALSE),
                       Ev("Generate"),
                       IF Truthy(full_plan) THEN "Your personalized plan is ready!"
                       ELSE "Failed to generate plan.")
             /\ response' = r
             /\ plan_text' = full_plan
    /\ UNCHANGED <<pc, parsed_plan, last_login>>

\* the button "Generate My 7-Day Plan!"; response and plan_text keep the
\* last reply to it
Generate ==
    /\ screen = "main"
    /\ \E r \in GenerateReplies :
          LET ss == session_state
              full_plan == generate_wellness_plan(r)
              ready == Put(Put(Put(ss, "weekly_plan", ParsedPlans[r]),
                               "plan_generated", TRUE),
                           "shopping_list", None)
          IN /\ Finish(IF Truthy(full_plan) THEN ready ELSE Put(ss, "plan_generated", FALSE),
                       Ev("Generate"),
                       IF Truthy(full_plan) THEN "Your personalized plan is ready!"
                       ELSE "Failed to generate plan.")
             /\ response' = r
             /\ plan_text' = full_plan
    /\ UNCHANGED <<pc, parsed_plan, last_login>>

\* the day selector
SelectDay ==
    /\ screen = "main"
    /\ plan_view = "shown"
    /\ \E d \in 1..Len(session_state.weekly_plan) :
          Finish(Put(session_state, "day_selector", d), Ev("Select day"), "none")
    /\ UNCHANGED <<parserVars, last_login>>

\* the message of a run that shows the reply of generate_api_call
Shown(reply, note) ==
    IF reply.none THEN "An error occurred with the AI." ELSE IF Truthy(reply) THEN note ELSE "none"

RECURSIVE JoinLines(_)
\* "\n".join(lines)
JoinLines(lines) ==
    IF lines = <<>> THEN <<>>
    ELSE IF Len(lines) = 1 THEN lines[1]
    ELSE lines[1] \o <<"NL">> \o JoinLines(Tail(lines))

\* the text of the diet that the prompt of the shopping list quotes: for
\* every day "Day i:" and the instructions (item[1]) of its diet items
diet_plan_text(weekly_plan) ==
    JoinLines([i \in 1..Len(weekly_plan) |->
                 <<"Day", "SP">> \o Digits(i) \o <<":", "NL">> \o
                 JoinLines([j \in 1..Len(weekly_plan[i].diet) |->
                              weekly_plan[i].diet[j][2]])])

\* the list the service writes for a diet: a reply to the prompt that
\* quotes the diet, kept apart from the replies to other diets
ShoppingReply(diet) == Str(<<"Shopping list for:">> \o diet)

\* the button "Generate Shopping List", rendered above the day's plan
ShoppingList ==
    /\ screen = "main"
    /\ plan_view # "hidden"
    /\ \E reply \in {None, ShoppingReply(diet_plan_text(session_state.weekly_plan))} :
          Finish(Put(session_state, "shopping_list", reply),
                 [Ev("Shopping List") EXCEPT !.reply = reply], Shown(reply, "none"))
    /\ UNCHANGED <<parserVars, last_login>>

\* a handler of "Alternative" that stores the first item of the reply in
\* the place of item i of the day
AfterAlternative_Replace(ss, section, i, reply) ==
    LET found == IF Truthy(reply) THEN FindItems(reply.text) ELSE <<>>
        d == selected_day_index(ss) + 1
    IN IF found = <<>> THEN ss
       ELSE Put(ss, "weekly_plan",
                [ss.weekly_plan EXCEPT ![d][section][i] = found[1]])

\* a handler of "Alternative" that adds the items of the reply to the
\* section of the day
AfterAlternative_Append(ss, section, i, reply) ==
    LET found == IF Truthy(reply) THEN FindItems(reply.text) ELSE <<>>
        d == selected_day_index(ss) + 1
    IN Put(ss, "weekly_plan", [ss.weekly_plan EXCEPT ![d][section] = @ \o found])

\* the session after the button "Alternative" of an item: the reply is
\* shown with st.success and nothing is stored
AfterAlternative(ss, section, i, reply) == ss

\* the buttons "Alternative" of the meals and of the exercises
Alternative ==
    /\ screen = "main"
    /\ plan_view = "shown"
    /\ \E section \in {"diet", "exercise"}, reply \in ApiReplies :
          \E i \in 1..Len(day_plan(session_state)[section]) :
             Finish(AfterAlternative(session_state, section, i, reply),
                    [name |-> "Alternative", section |-> section, index |-> i, reply |-> reply],
                    Shown(reply, "Alternative"))
    /\ UNCHANGED <<parserVars, last_login>>

\* the buttons "Cooking Tips" of the meals
CookingTips ==
    /\ screen = "main"
    /\ plan_view = "shown"
    /\ \E reply \in {PlainReply} :
          \E i \in 1..Len(day_plan(session_state).diet) :
             Finish(session_state,
                    [name |-> "Cooking Tips", section |-> "diet", index |-> i, reply |-> reply],
                    Shown(reply, "Cooking Tips"))
    /\ UNCHANGED <<parserVars, last_login>>

\* the buttons "Modifications" of the exercises
Modifications ==
    /\ screen = "main"
    /\ plan_view = "shown"
    /\ \E reply \in {PlainReply} :
          \E i \in 1..Len(day_plan(session_state).exercise) :
             Finish(session_state,
                    [name |-> "Modifications", section |-> "exercise", index |-> i, reply |-> reply],
                    Shown(reply, "Modifications"))
    /\ UNCHANGED <<parserVars, last_login>>

\* a handler that stores a reply without items as one exercise
NewExercises_RawOnNoMatch(old, reply) ==
    LET exercise_matches == IF Truthy(reply) THEN FindItems(reply.text) ELSE <<>> IN
    IF exercise_matches # <<>> THEN exercise_matches
    ELSE IF Truthy(reply) THEN << <<<<"Workout">>, reply.text>> >>
    ELSE old

\* the exercises of the day after "Generate Today's Exercises": the items
\* of the reply if it has any, else the exercises the day had
NewExercises(old, reply) ==
    LET exercise_matches == IF Truthy(reply) THEN FindItems(reply.text) ELSE <<>> IN
    IF exercise_matches # <<>> THEN exercise_matches ELSE old

\* the button "Generate Today's Exercises", rendered for a day without
\* exercises; the day of the stored plan is changed in place
GenerateExercises ==
    /\ screen = "main"
    /\ plan_view = "shown"
    /\ day_plan(session_state).exercise = <<>>
    /\ \E reply \in ApiReplies :
          LET ss == session_state
              d == selected_day_index(ss) + 1
              new == NewExercises(ss.weekly_plan[d].exercise, reply)
          IN Finish(Put(ss, "weekly_plan", [ss.weekly_plan EXCEPT ![d].exercise = new]),
                    [Ev("Generate Exercises") EXCEPT !.reply = reply],
                    IF reply.none THEN "An error occurred with the AI." ELSE "none")
    /\ UNCHANGED <<parserVars, last_login>>

\* the chat input: the question, then the answer or the text of the error
Chat ==
    /\ screen = "main"
    /\ plan_view # "IndexError"
    /\ Len(session_state.messages) + 2 <= MaxMessages
    /\ \E answered \in BOOLEAN :
          LET ss == session_state
              asked == Append(ss.messages, [role |-> "user", content |-> "question"])
              reply == [role |-> "assistant",
                        content |-> IF answered THEN "answer" ELSE "I apologize"]
          IN Finish(Put(ss, "messages", Append(asked, reply)), Ev("Chat"),
                    IF answered THEN "none" ELSE "I apologize")
    /\ UNCHANGED <<parserVars, last_login>>

\* the button "Clear Chat"
ClearChat ==
    /\ screen = "main"
    /\ plan_view # "IndexError"
    /\ Finish(Put(session_state, "messages", Cleared), Ev("Clear Chat"), "none")
    /\ UNCHANGED <<parserVars, last_login>>

\* the button "Quick Tips"
QuickTips ==
    /\ screen = "main"
    /\ plan_view # "IndexError"
    /\ Finish(session_state, Ev("Quick Tips"), "Daily Tip")
    /\ UNCHANGED <<parserVars, last_login>>

\* the first run of a session
InitApp ==
    /\ response = NoResponse
    /\ plan_text = None
    /\ pc = "app"
    /\ parsed_plan = <<>>
    /\ session_state = Run(<<>>)
    /\ screen = Route(Run(<<>>))
    /\ plan_view = "hidden"
    /\ notice = "none"
    /\ event = NoEvent
    /\ last_login = NoLogin

NextApp ==
    \/ LoginTab \/ SignUpTab \/ SubmitLogin \/ DemoLogin \/ SubmitSignUp
    \/ Logout \/ SetGoal \/ LogWeight \/ Generate \/ SelectDay \/ ShoppingList
    \/ Alternative \/ CookingTips \/ Modifications \/ GenerateExercises
    \/ Chat \/ ClearChat \/ QuickTips

SpecApp == InitApp /\ [][NextApp]_vars

----------------------------------------------------------------------------
(* Claims about the session. *)

\* the last run handled "Alternative" and its reply has a bold title with
\* instructions
AlternativeMatched ==
    /\ event.name = "Alternative"
    /\ Truthy(event.reply)
    /\ FindItems(event.reply.text) # <<>>

(* C13: "Alternative" on item k of a section of day d, with a reply that   *)
(* matches the pattern of bold title and instructions, replaces that item  *)
(* of the stored plan with the parsed pair and changes no other item.      *)
(* Stated as claimed; the code refutes it.                                  *)
C13_AlternativeReplacesItem ==
    AlternativeMatched =>
        day_plan(session_state)[event.section][event.index] = FindItems(event.reply.text)[1]

(* C13, amended: "Alternative" on an item shows the reply and stores       *)
(* nothing: the stored plan is the same after it as before, item k too,    *)
(* whether or not the reply matches the pattern.                            *)
C13_AlternativeKeepsPlan ==
    [][event'.name = "Alternative" =>
          /\ session_state' = session_state
          /\ notice' = Shown(event'.reply, "Alternative")]_vars

C13_Witness ==
    /\ AlternativeMatched /\ event.section = "diet" /\ event.index = 2
    /\ plan_view = "shown" /\ notice = "Alternative"
    /\ day_plan(session_state).diet[2][1] = <<"Lunch", ":", "SP", "Salad">>

\* a reply that is a text without any bold title with instructions
NoItemIn(reply) == Truthy(reply) /\ FindItems(reply.text) = <<>>

(* C14: when the text given to an item mutation ("Alternative", or         *)
(* "Generate Today's Exercises" for a day) has no match of the pattern of  *)
(* bold title and instructions, the stored plan is left as it was and no   *)
(* error is raised: the plan view is rendered again without error message. *)
C14_NoMatchKeepsPlan ==
    [][(event'.name \in {"Alternative", "Generate Exercises"} /\ NoItemIn(event'.reply)) =>
          /\ session_state'.weekly_plan = session_state.weekly_plan
          /\ plan_view' = "shown"
          /\ notice' \in {"none", "Alternative"}]_vars

C14_Witness ==
    /\ event.name = "Generate Exercises" /\ NoItemIn(event.reply)
    /\ plan_view = "shown"
    /\ selected_day_index(session_state) = 1
    /\ day_plan(session_state).exercise = <<>>

\* a plan is stored before the step and is not the same after it
PlanChanges ==
    /\ Has(session_state, "weekly_plan")
    /\ ~Has(session_state', "weekly_plan")
       \/ session_state'.weekly_plan # session_state.weekly_plan

(* C15: once a plan is stored, it is changed only by a later successful    *)
(* generate and by "Alternative" on one item; no other action changes it.  *)
(* Stated as claimed; the code refutes it.                                  *)
C15_OnlyGenerateAndAlternative ==
    [][PlanChanges => event'.name \in {"Generate", "Alternative"}]_vars

(* C15, amended: once a plan is stored, it is changed only by a later      *)
(* successful generate, which replaces it by the parse of the new reply,   *)
(* by "Generate Today's Exercises" for a day without exercises, which      *)
(* stores the items of a reply that has some as the exercises of that day  *)
(* and changes nothing else, and by logout, which deletes it.              *)
(* "Alternative", day selection, the shopping list, cooking tips,          *)
(* modifications, the chat and weight logging change no field of it.       *)
C15_GenerateExercisesLogout ==
    [][PlanChanges =>
          \/ /\ event'.name = "Generate"
             /\ Truthy(plan_text')
             /\ plan_text' = generate_wellness_plan(response')
             /\ session_state'.weekly_plan = ParsedPlans[response']
          \/ /\ event'.name = "Generate Exercises"
             /\ ~NoItemIn(event'.reply)
             /\ LET d == selected_day_index(session_state) + 1 IN
                  /\ session_state.weekly_plan[d].exercise = <<>>
                  /\ session_state'.weekly_plan =
                       [session_state.weekly_plan EXCEPT
                           ![d].exercise = FindItems(event'.reply.text)]
          \/ /\ event'.name = "Logout"
             /\ ~Has(session_state', "weekly_plan")]_vars

C15_Witness ==
    /\ event.name = "Generate Exercises" /\ event.reply = BoldReply
    /\ plan_view = "shown"
    /\ session_state.weekly_plan[2].exercise = << <<<<"Yoga">>, <<"Ten minutes.">>>> >>
    /\ session_state.weekly_plan[1] = ParsedPlans[TwoDayReply][1]

\* the last generate failed: its reply was None or the empty text
GenerateFailed == ~Truthy(plan_text)

\* plan is the whole parse of a reply, but for exercises stored since by
\* "Generate Today's Exercises" for a day that had none
WholePlanOf(plan, r) ==
    /\ Len(plan) = Len(ParsedPlans[r])
    /\ \A d \in 1..Len(plan) :
          \/ plan[d] = ParsedPlans[r][d]
          \/ /\ ParsedPlans[r][d].exercise = <<>>
             /\ plan[d] = [ParsedPlans[r][d] EXCEPT !.exercise = FindItems(BoldReply.text)]

(* C16: when the call of the generation service of a generate action       *)
(* fails (None or the empty text), the run shows an error message and no   *)
(* plan is displayed; a plan is displayed only when the last generate      *)
(* succeeded, and the stored plan is at any time the whole parse of a      *)
(* reply, never a part of one.                                              *)
C16_FailedGenerateShowsNoPlan ==
    /\ (event.name = "Generate" /\ GenerateFailed) =>
          notice = "Failed to generate plan." /\ plan_view = "hidden"
    /\ plan_view # "hidden" => ~GenerateFailed
    /\ Has(session_state, "weekly_plan") =>
          \E r \in DOMAIN ParsedPlans : WholePlanOf(session_state.weekly_plan, r)

C16_Witness ==
    /\ event.name = "Generate" /\ GenerateFailed
    /\ notice = "Failed to generate plan." /\ plan_view = "hidden"
    /\ Has(session_state, "weekly_plan") /\ Len(session_state.weekly_plan) = 2

(* C19: whenever the plan view is rendered (plan_generated is true and a   *)
(* plan is stored), the selected day index is an index of the plan and the *)
(* lookup of the day cannot fail, for every non-empty reply a successful   *)
(* generate can store, one without day heading too.  Stated as claimed;    *)
(* the code breaks it: for a reply without day heading the plan is empty   *)
(* and weekly_plan[0] raises IndexError.                                    *)
C19_SelectedDayIsInPlan ==
    (screen = "main" /\ PlanShown(session_state)) =>
        /\ selected_day_index(session_state) < Len(session_state.weekly_plan)
        /\ plan_view = "shown"

\* the last submission of the login form had the name of an account and
\* its password
LastLoginValid ==
    /\ last_login.made
    /\ last_login.username \in DOMAIN session_state.user_db
    /\ session_state.user_db[last_login.username] = last_login.password

\* the last run handled a submission of the login form and refused it
LoginRefused == event.name \in {"Login", "Demo"} /\ notice = "Invalid credentials."

(* C20: in every state logged_in is true only if the last submission of    *)
(* the login form gave the name of an account of user_db with the password *)
(* stored for it; the main application is rendered only when logged_in is  *)
(* true; a refused login leaves logged_in and username as they were.       *)
C20_LoggedInOnlyByCredentials ==
    /\ [](session_state.logged_in =>
             LastLoginValid /\ session_state.username = last_login.username)
    /\ [](screen = "main" => session_state.logged_in)
    /\ [][LoginRefused' =>
             /\ session_state'.logged_in = session_state.logged_in
             /\ Has(session_state', "username") = Has(session_state, "username")
             /\ ~session_state'.logged_in]_vars

C20_Witness ==
    /\ LoginRefused /\ ~session_state.logged_in /\ screen = "login"
    /\ last_login.username = "new" /\ last_login.password = Demo123
    /\ "new" \in DOMAIN session_state.user_db

\* the accounts of the session
user_db == session_state.user_db

\* the names that user_db has after a step and had not before
AddedNames == DOMAIN user_db' \ DOMAIN user_db

(* C21: user_db only grows: no step removes a name or changes the password *)
(* stored for it; a step adds an entry only as a sign-up whose username    *)
(* and password are not empty, whose password has at least 6 characters    *)
(* and equals the confirmation and whose username was not present, and it  *)
(* adds that username with that password; a refused sign-up leaves user_db *)
(* as it was.                                                               *)
C21_UserDbOnlyGrows ==
    [][/\ \A u \in DOMAIN user_db : u \in DOMAIN user_db' /\ user_db'[u] = user_db[u]
       /\ AddedNames # {} =>
            /\ event'.name = "Create Account" /\ notice' = "none"
            /\ event'.new_username # "" /\ event'.new_password # <<>>
            /\ Len(event'.new_password) >= 6
            /\ event'.new_password = event'.confirm_password
            /\ event'.new_username \notin DOMAIN user_db
            /\ AddedNames = {event'.new_username}
            /\ user_db'[event'.new_username] = event'.new_password
       /\ (event'.name = "Create Account" /\ notice' # "none") => user_db' = user_db
      ]_vars

C21_Witness ==
    /\ event.name = "Logout" /\ screen = "login"
    /\ last_login.username = "new" /\ last_login.password = Secret1
    /\ DOMAIN user_db = {"demo", "admin", "user", "new"}
    /\ user_db["new"] = Secret1 /\ user_db["demo"] = Demo123

\* the step ends on the main page after a login from the login page
LoggedIn == screen = "login" /\ screen' = "main"

(* C22: the run of a logout ends on the login page with user_db as it was  *)
(* and no other key of the login left: only logged_in (False) and page     *)
(* ("Login"), which the run itself creates again; the login after it       *)
(* starts without weekly_plan and shopping_list, with no chat message but  *)
(* the greeting, an empty weight_log and the default goal weight.          *)
C22_LogoutClearsSession ==
    [][/\ event'.name = "Logout" =>
            /\ DOMAIN session_state' = {"user_db", "logged_in", "page"}
            /\ session_state'.user_db = session_state.user_db
            /\ ~session_state'.logged_in /\ session_state'.page = "Login"
            /\ screen' = "login" /\ plan_view' = "hidden"
       /\ LoggedIn =>
            /\ ~Has(session_state', "weekly_plan")
            /\ ~Has(session_state', "shopping_list")
            /\ session_state'.messages = Greeting
            /\ session_state'.weight_log = <<>>
            /\ session_state'.goal_weight = 75
            /\ plan_view' = "hidden"
      ]_vars

\* a login after the logout of a login that had generated a plan
C22_Witness ==
    /\ event.name \in {"Login", "Demo"} /\ screen = "main"
    /\ Truthy(plan_text)
    /\ ~Has(session_state, "weekly_plan") /\ session_state.weight_log = <<>>
    /\ session_state.messages = Greeting

\* the weight log of the login
weight_log == session_state.weight_log

\* the log is stored before and after the step
LogKept == Has(session_state, "weight_log") /\ Has(session_state', "weight_log")

(* C23: entry i of weight_log has week = i, so the weeks are 1, 2, ...     *)
(* without gap or duplicate; a Log Weight action appends exactly one entry *)
(* with the next week number and leaves the earlier entries as they were,  *)
(* and no other action within a login changes the log.                     *)
C23_WeeksAreConsecutive ==
    /\ [](Has(session_state, "weight_log") =>
             \A i \in 1..Len(weight_log) : weight_log[i].week = i)
    /\ [][/\ (LogKept /\ weight_log' # weight_log) => event'.name = "Log Weight"
          /\ (LogKept /\ event'.name = "Log Weight" /\ session_state' # session_state) =>
                /\ Len(weight_log') = Len(weight_log) + 1
                /\ SubSeq(weight_log', 1, Len(weight_log)) = weight_log
                /\ weight_log'[Len(weight_log')].week = Len(weight_log) + 1
         ]_vars

C23_Witness ==
    /\ event.name = "Log Weight" /\ screen = "main"
    /\ Len(weight_log) = MaxLog
    /\ weight_log[1].week = 1 /\ weight_log[MaxLog].week = MaxLog

\* the messages of the chat
messages == session_state.messages

\* the role of message i of a chat that starts with the assistant and
\* alternates
RoleAt(i) == IF i % 2 = 1 THEN "assistant" ELSE "user"

shopping_list == Get(session_state, "shopping_list", None)

\* the run displayed a shopping list: the plan view was rendered and the
\* stored list is neither None nor empty
ListDisplayed == screen = "main" /\ PlanShown(session_state) /\ Truthy(shopping_list)

\* the diet items of a plan
StoredDiet(plan) == [i \in 1..Len(plan) |-> plan[i].diet]

(* C25: a shopping list that is displayed was written for the diet of the  *)
(* plan now stored; after a generate that succeeded the stored list is     *)
(* None; and a step changes the diet items of the stored plan only as a    *)
(* generate that succeeded.                                                *)
C25_ListIsOfStoredPlan ==
    /\ [](ListDisplayed =>
             shopping_list = Str(<<"Shopping list for:">>
                                 \o diet_plan_text(session_state.weekly_plan)))
    /\ []((event.name = "Generate" /\ Truthy(plan_text)) =>
             Has(session_state, "shopping_list") /\ session_state.shopping_list = None)
    /\ [][(/\ Has(session_state, "weekly_plan") /\ Has(session_state', "weekly_plan")
           /\ StoredDiet(session_state'.weekly_plan) # StoredDiet(session_state.weekly_plan))
          => event'.name = "Generate" /\ Truthy(plan_text')]_vars

\* the list of the two-day plan, displayed after a list of the empty plan
\* of an earlier generate had been reset
C25_Witness ==
    /\ ListDisplayed /\ plan_view = "shown" /\ event.name = "Shopping List"
    /\ Len(session_state.weekly_plan) = 2
    /\ shopping_list # Str(<<"Shopping list for:">>)
    /\ Len(shopping_list.text) > 1

====
